---- MODULE Spec2Model ----
(***************************************************************************)
(* Flight-route visualisation agent (agentstack_agents).                   *)
(*                                                                         *)
(* visualize.py: prepare_flight_data builds the segment table and the      *)
(* deduplicated airport table; create_static_map and create_interactive_map*)
(* render them.  agent.py: flight_search_agent runs the tool loop, whose   *)
(* visualize_flights tool writes the two captured buffers, and then emits  *)
(* the final message.                                                      *)
(*                                                                         *)
(* Text is a sequence of tokens, so that joining and formatting are        *)
(* computed rather than assumed.  Coordinates are tenths of a degree; axis *)
(* limits are hundredths of a degree, which makes the 0.1 padding factor   *)
(* exact.                                                                  *)
(***************************************************************************)
EXTENDS Integers, Sequences, FiniteSets, TLC

VARIABLES pc, flights, gdf, static_png_bytes, interactive_html_bytes,
          final_answer, final_message, yielded, stored, n_calls, last_call

vars == <<pc, flights, gdf, static_png_bytes, interactive_html_bytes,
          final_answer, final_message, yielded, stored, n_calls, last_call>>

None == [kind |-> "None"]

(***************************************************************************)
(* Bounds of the model.                                                    *)
(***************************************************************************)
MaxFlights == 2
MaxCodes == 4
MaxCycleFlights == 11
MaxCalls == 2
MaxDeltas == 2

(***************************************************************************)
(* The airport table, airportsdata.load("IATA"): three of its entries, in  *)
(* tenths of a degree.  PRG and KRK share a latitude at this precision.    *)
(* "XXX" is a code the table does not hold.                                *)
(***************************************************************************)
airports ==
    [c \in {"PRG", "KRK", "LAS"} |->
        CASE c = "PRG" -> [lon |-> 143, lat |-> 501]
          [] c = "KRK" -> [lon |-> 198, lat |-> 501]
          [] c = "LAS" -> [lon |-> -1152, lat |-> 361]]

Codes == DOMAIN airports \cup {"XXX"}

(***************************************************************************)
(* The palette plt.cm.get_cmap("tab10"): ten colours.  Called with an      *)
(* integer beyond its last slot a colormap answers its last colour.        *)
(***************************************************************************)
cmapN == 10

tab10 == << "#1f77b4", "#ff7f0e", "#2ca02c", "#d62728", "#9467bd",
            "#8c564b", "#e377c2", "#7f7f7f", "#bcbd22", "#17becf" >>

cmap(k) == tab10[IF k >= cmapN THEN cmapN ELSE k + 1]

flight_color_unwrapped(flight_idx) == cmap(flight_idx)

\* color = matplotlib.colors.rgb2hex(cmap(flight_idx % cmap.N))
flight_color(flight_idx) == cmap(flight_idx % cmapN)

(***************************************************************************)
(* " → ".join(flight), as tokens.                                        *)
(***************************************************************************)
RECURSIVE join(_, _)
join(sep, seq) ==
    IF Len(seq) = 0 THEN <<>>
    ELSE IF Len(seq) = 1 THEN <<seq[1]>>
    ELSE <<seq[1], sep>> \o join(sep, Tail(seq))

segment_label_origin_only(origin, dest, flight) ==
    <<origin, " → ", origin, " (part of ">> \o join(" → ", flight) \o <<")">>

\* f"{origin} → {dest} (part of {full_route})"
segment_label(origin, dest, flight) ==
    <<origin, " → ", dest, " (part of ">> \o join(" → ", flight) \o <<")">>

LineString(origin, dest) ==
    << <<airports[origin].lon, airports[origin].lat>>,
       <<airports[dest].lon, airports[dest].lat>> >>

Point(code) == <<airports[code].lon, airports[code].lat>>

Raised == [raised |-> TRUE, rows |-> <<>>]

(***************************************************************************)
(* The inner loop of prepare_flight_data: for i in range(len(flight) - 1), *)
(* here from the 1-based position i on.  A lookup of a code the table does *)
(* not hold raises.                                                        *)
(***************************************************************************)
RECURSIVE flight_segments(_, _, _)
flight_segments(flight, color, i) ==
    IF i > Len(flight) - 1 THEN [raised |-> FALSE, rows |-> <<>>]
    ELSE LET origin == flight[i]
             dest == flight[i + 1]
         IN IF origin \notin DOMAIN airports \/ dest \notin DOMAIN airports
            THEN Raised
            ELSE LET rest == flight_segments(flight, color, i + 1)
                     row == [geometry |-> LineString(origin, dest),
                             route |-> segment_label(origin, dest, flight),
                             color |-> color]
                 IN IF rest.raised THEN Raised
                    ELSE [raised |-> FALSE, rows |-> <<row>> \o rest.rows]

(***************************************************************************)
(* The outer loop: for flight_idx, flight in enumerate(flights), from the  *)
(* 0-based index flight_idx on.                                            *)
(***************************************************************************)
RECURSIVE all_segments(_, _)
all_segments(fl, flight_idx) ==
    IF flight_idx >= Len(fl) THEN [raised |-> FALSE, rows |-> <<>>]
    ELSE LET here == flight_segments(fl[flight_idx + 1], flight_color(flight_idx), 1)
         IN IF here.raised THEN Raised
            ELSE LET rest == all_segments(fl, flight_idx + 1)
                 IN IF rest.raised THEN Raised
                    ELSE [raised |-> FALSE, rows |-> here.rows \o rest.rows]

RECURSIVE waypoints_multi_leg_only(_)
waypoints_multi_leg_only(fl) ==
    IF Len(fl) = 0 THEN <<>>
    ELSE (IF Len(fl[1]) < 2 THEN <<>> ELSE fl[1]) \o waypoints_multi_leg_only(Tail(fl))

\* for flight in flights: for code in flight: the codes in scan order
RECURSIVE waypoints(_)
waypoints(fl) == IF Len(fl) = 0 THEN <<>> ELSE fl[1] \o waypoints(Tail(fl))

airport_rows_keep_duplicates(codes, seen_codes) ==
    IF \E k \in 1..Len(codes) : codes[k] \notin DOMAIN airports THEN Raised
    ELSE [raised |-> FALSE,
          rows |-> [k \in 1..Len(codes) |->
                       [geometry |-> Point(codes[k]), code |-> codes[k]]]]

RECURSIVE airport_rows_skip_unknown(_, _)
airport_rows_skip_unknown(codes, seen_codes) ==
    IF Len(codes) = 0 THEN [raised |-> FALSE, rows |-> <<>>]
    ELSE LET code == codes[1]
             rest == airport_rows_skip_unknown(Tail(codes), seen_codes \cup {code})
         IN IF code \in seen_codes \/ code \notin DOMAIN airports THEN rest
            ELSE [raised |-> FALSE,
                  rows |-> <<[geometry |-> Point(code), code |-> code]>> \o rest.rows]

(***************************************************************************)
(* The airport loop: a code not yet in seen_codes is looked up (which      *)
(* raises for a code the table does not hold), appended and remembered.    *)
(***************************************************************************)
RECURSIVE airport_rows(_, _)
airport_rows(codes, seen_codes) ==
    IF Len(codes) = 0 THEN [raised |-> FALSE, rows |-> <<>>]
    ELSE LET code == codes[1]
         IN IF code \in seen_codes THEN airport_rows(Tail(codes), seen_codes)
            ELSE IF code \notin DOMAIN airports THEN Raised
            ELSE LET rest == airport_rows(Tail(codes), seen_codes \cup {code})
                     row == [geometry |-> Point(code), code |-> code]
                 IN IF rest.raised THEN Raised
                    ELSE [raised |-> FALSE, rows |-> <<row>> \o rest.rows]

(***************************************************************************)
(* prepare_flight_data(flights): the two tables, or the lookup failure.    *)
(***************************************************************************)
prepare_flight_data(fl) ==
    LET segs == all_segments(fl, 0)
    IN IF segs.raised THEN [kind |-> "raised", error |-> "KeyError"]
       ELSE LET pts == airport_rows(waypoints(fl), {})
            IN IF pts.raised THEN [kind |-> "raised", error |-> "KeyError"]
               ELSE [kind |-> "gdf",
                     flights_gdf |-> segs.rows,
                     airports_gdf |-> pts.rows]

(***************************************************************************)
(* create_interactive_map: one folium.PolyLine per row of flights_gdf,     *)
(* then one folium.CircleMarker per row of airports_gdf, each added to the *)
(* map in iteration order; locations are (lat, lon).  render_ok is whether *)
(* folium imports and the map renders.                                     *)
(***************************************************************************)
PolyLine(row) ==
    [type |-> "PolyLine",
     locations |-> [k \in 1..Len(row.geometry) |->
                       <<row.geometry[k][2], row.geometry[k][1]>>],
     color |-> row.color,
     tooltip |-> row.route]

CircleMarker(row) ==
    [type |-> "CircleMarker",
     locations |-> << <<row.geometry[2], row.geometry[1]>> >>,
     color |-> "blue",
     tooltip |-> <<row.code>>]

map_children_skip_last_segment(g) ==
    [k \in 1..(Len(g.flights_gdf) - 1) |-> PolyLine(g.flights_gdf[k])]
    \o [k \in 1..Len(g.airports_gdf) |-> CircleMarker(g.airports_gdf[k])]

map_children(g) ==
    [k \in 1..Len(g.flights_gdf) |-> PolyLine(g.flights_gdf[k])]
    \o [k \in 1..Len(g.airports_gdf) |-> CircleMarker(g.airports_gdf[k])]

create_interactive_map(g, render_ok) ==
    IF ~render_ok THEN [kind |-> "raised", error |-> "render"]
    ELSE [kind |-> "html", children |-> map_children(g)]

(***************************************************************************)
(* create_static_map.  total_bounds of the concatenated tables is the      *)
(* bounding box of every coordinate of every geometry; of no geometry at   *)
(* all it is NaN, which set_xlim refuses.  world_ok is whether the basemap *)
(* could be read.                                                          *)
(***************************************************************************)
SetMin(S) == CHOOSE x \in S : \A y \in S : x <= y
SetMax(S) == CHOOSE x \in S : \A y \in S : x >= y

all_coords(g) ==
    UNION {{g.flights_gdf[k].geometry[1], g.flights_gdf[k].geometry[2]} :
              k \in 1..Len(g.flights_gdf)}
    \cup {g.airports_gdf[k].geometry : k \in 1..Len(g.airports_gdf)}

total_bounds(g) ==
    LET xs == {c[1] : c \in all_coords(g)}
        ys == {c[2] : c \in all_coords(g)}
    IN [minx |-> SetMin(xs), miny |-> SetMin(ys),
        maxx |-> SetMax(xs), maxy |-> SetMax(ys)]

\* The padding factor 0.1 as PadNum / PadDen.
PadNum == 1
PadDen == 10

padding_none(extent) == 0

\* padding_x = (maxx - minx) * 0.1, in hundredths of a degree
padding(extent) == extent * PadNum

\* ax.set_xlim(minx - padding_x, maxx + padding_x), in hundredths of a degree
axis_limits(lo, hi) ==
    <<lo * PadDen - padding(hi - lo), hi * PadDen + padding(hi - lo)>>

create_static_map(g, world_ok) ==
    IF ~world_ok THEN [kind |-> "raised", error |-> "basemap"]
    ELSE IF all_coords(g) = {} THEN [kind |-> "raised", error |-> "ValueError"]
    ELSE LET b == total_bounds(g)
         IN [kind |-> "png",
             lines |-> [k \in 1..Len(g.flights_gdf) |->
                           [geometry |-> g.flights_gdf[k].geometry,
                            color |-> g.flights_gdf[k].color]],
             points |-> [k \in 1..Len(g.airports_gdf) |->
                            g.airports_gdf[k].geometry],
             annotations |-> [k \in 1..Len(g.airports_gdf) |->
                                 [text |-> g.airports_gdf[k].code,
                                  xy |-> g.airports_gdf[k].geometry]],
             xlim |-> axis_limits(b.minx, b.maxx),
             ylim |-> axis_limits(b.miny, b.maxy)]

(***************************************************************************)
(* Inputs.  CodeSeqs(n): the itineraries of n codes.  FlightLists(k, t):   *)
(* the lists of at most k itineraries holding at most t codes in all.      *)
(* CycleLists: lists long enough to go round the palette, of a one-code    *)
(* itinerary and a three-code one.                                         *)
(***************************************************************************)
CodeSeqs(n) == [1..n -> Codes]

RECURSIVE FlightLists(_, _)
FlightLists(k, t) ==
    IF k = 0 THEN {<<>>}
    ELSE {<<>>} \cup
         UNION {{<<it>> \o rest : rest \in FlightLists(k - 1, t - n), it \in CodeSeqs(n)} :
                   n \in 0..t}

CycleItineraries == {<<"PRG">>, <<"PRG", "LAS", "KRK">>}

CycleLists == UNION {[1..n -> CycleItineraries] : n \in (MaxCycleFlights - 1)..MaxCycleFlights}

(***************************************************************************)
(* SpecBuild: the three functions of visualize.py applied to every bounded *)
(* input.                                                                  *)
(***************************************************************************)
AgentIdle ==
    /\ final_answer = <<>>
    /\ final_message = <<>>
    /\ yielded = <<>>
    /\ stored = <<>>
    /\ n_calls = 0
    /\ last_call = None

InitBuild ==
    /\ flights \in FlightLists(MaxFlights, MaxCodes) \cup CycleLists
    /\ pc = "input"
    /\ gdf = None
    /\ static_png_bytes = None
    /\ interactive_html_bytes = None
    /\ AgentIdle

BuildPrepare ==
    /\ pc = "input"
    /\ gdf' = prepare_flight_data(flights)
    /\ pc' = IF gdf'.kind = "raised" THEN "raised" ELSE "prepared"
    /\ UNCHANGED <<flights, static_png_bytes, interactive_html_bytes,
                   final_answer, final_message, yielded, stored, n_calls, last_call>>

BuildStatic ==
    /\ pc = "prepared"
    /\ static_png_bytes = None
    /\ \E world_ok \in BOOLEAN :
          static_png_bytes' = create_static_map(gdf, world_ok)
    /\ UNCHANGED <<pc, flights, gdf, interactive_html_bytes,
                   final_answer, final_message, yielded, stored, n_calls, last_call>>

BuildInteractive ==
    /\ pc = "prepared"
    /\ interactive_html_bytes = None
    /\ \E render_ok \in BOOLEAN :
          interactive_html_bytes' = create_interactive_map(gdf, render_ok)
    /\ UNCHANGED <<pc, flights, gdf, static_png_bytes,
                   final_answer, final_message, yielded, stored, n_calls, last_call>>

NextBuild == BuildPrepare \/ BuildStatic \/ BuildInteractive

SpecBuild == InitBuild /\ [][NextBuild]_vars

(***************************************************************************)
(* Properties of prepare_flight_data, stated from the input by position.   *)
(***************************************************************************)
AllKnown(fl) == \A i \in 1..Len(fl) : \A j \in 1..Len(fl[i]) : fl[i][j] \in DOMAIN airports

Legs(it) == IF Len(it) >= 2 THEN Len(it) - 1 ELSE 0

RECURSIVE LegsBefore(_, _)
LegsBefore(fl, i) == IF i <= 1 THEN 0 ELSE LegsBefore(fl, i - 1) + Legs(fl[i - 1])

Coord(code) == <<airports[code].lon, airports[code].lat>>

Built == pc \in {"prepared", "raised"}

\* C1: once built from known codes, the segment list is the concatenation, in
\* itinerary order, of each itinerary's consecutive pairs: an itinerary of N >= 2
\* codes gives N-1 segments, the j-th from code[j] to code[j+1], labelled with
\* that origin, that destination and the whole itinerary in waypoint order.
C1_SegmentsAreConsecutivePairs ==
    (Built /\ AllKnown(flights)) =>
        /\ gdf.kind = "gdf"
        /\ Len(gdf.flights_gdf) = LegsBefore(flights, Len(flights) + 1)
        /\ \A i \in 1..Len(flights) : \A j \in 1..(Len(flights[i]) - 1) :
              LET row == gdf.flights_gdf[LegsBefore(flights, i) + j]
                  N == Len(flights[i])
              IN /\ row.geometry = <<Coord(flights[i][j]), Coord(flights[i][j + 1])>>
                 /\ Len(row.route) = 2 * N + 4
                 /\ row.route[1] = flights[i][j]
                 /\ row.route[3] = flights[i][j + 1]
                 /\ \A k \in 1..N : row.route[2 * k + 3] = flights[i][k]
                 /\ \A k \in 1..(N - 1) : row.route[2 * k + 4] = " → "

C1_Witness ==
    /\ pc = "prepared"
    /\ Len(flights) = 2
    /\ Len(flights[1]) = 3
    /\ Len(flights[2]) = 1
    /\ flights[1][1] # flights[1][2]
    /\ flights[1][2] # flights[1][3]
    /\ Len(gdf.flights_gdf) = 2

Positions(fl) == UNION {{<<i, j>> : j \in 1..Len(fl[i])} : i \in 1..Len(fl)}

CodeSet(fl) == {fl[p[1]][p[2]] : p \in Positions(fl)}

Before(p, q) == p[1] < q[1] \/ (p[1] = q[1] /\ p[2] < q[2])

Occurrences(fl, c) == {p \in Positions(fl) : fl[p[1]][p[2]] = c}

FirstSeen(fl, c) ==
    CHOOSE p \in Occurrences(fl, c) : \A q \in Occurrences(fl, c) : p = q \/ Before(p, q)

\* C2: once built from known codes, the airport points are exactly the distinct
\* codes of all itineraries, each once, ordered by first occurrence in the scan.
C2_PointsAreDistinctCodesFirstSeen ==
    (Built /\ AllKnown(flights)) =>
        /\ gdf.kind = "gdf"
        /\ {gdf.airports_gdf[k].code : k \in 1..Len(gdf.airports_gdf)} = CodeSet(flights)
        /\ \A a, b \in 1..Len(gdf.airports_gdf) :
              /\ a # b => gdf.airports_gdf[a].code # gdf.airports_gdf[b].code
              /\ a < b => Before(FirstSeen(flights, gdf.airports_gdf[a].code),
                                 FirstSeen(flights, gdf.airports_gdf[b].code))
        /\ \A k \in 1..Len(gdf.airports_gdf) :
              gdf.airports_gdf[k].geometry = Coord(gdf.airports_gdf[k].code)

C2_Witness ==
    /\ pc = "prepared"
    /\ flights = << <<"PRG", "LAS">>, <<"LAS", "PRG">> >>
    /\ Len(gdf.flights_gdf) = 2
    /\ Len(gdf.airports_gdf) = 2
    /\ gdf.airports_gdf[1].code = "PRG"
    /\ gdf.airports_gdf[2].code = "LAS"

\* C3: a code the table does not hold, anywhere in any itinerary (also alone in
\* an itinerary of one code), makes prepare_flight_data raise: no table, whole
\* or partial, is returned.
C3_UnknownCodeRaises ==
    (Built /\ ~AllKnown(flights)) =>
        /\ pc = "raised"
        /\ gdf = [kind |-> "raised", error |-> "KeyError"]

C3_Witness ==
    /\ pc = "raised"
    /\ flights = << <<"PRG", "LAS">>, <<"XXX">> >>
    /\ gdf.kind = "raised"

\* C4: every segment's colour is palette slot (i mod C) of its itinerary's
\* 0-based index i: the segments of one itinerary share a colour, and itineraries
\* whose indices differ by a multiple of C have the same colour, whatever the
\* itineraries hold (one of fewer than 2 codes still takes an index).
C4_ColorIsIndexModPalette ==
    pc = "prepared" =>
        /\ \A i \in 1..Len(flights) : \A j \in 1..(Len(flights[i]) - 1) :
              gdf.flights_gdf[LegsBefore(flights, i) + j].color
                  = tab10[((i - 1) % Len(tab10)) + 1]
        /\ \A i1, i2 \in 1..Len(flights) :
              ((i1 - i2) % Len(tab10) = 0) =>
                  \A j1 \in 1..(Len(flights[i1]) - 1) : \A j2 \in 1..(Len(flights[i2]) - 1) :
                      gdf.flights_gdf[LegsBefore(flights, i1) + j1].color
                          = gdf.flights_gdf[LegsBefore(flights, i2) + j2].color

C4_Witness ==
    /\ pc = "prepared"
    /\ Len(flights) = Len(tab10) + 1
    /\ Len(flights[1]) = 3
    /\ Len(flights[2]) = 1
    /\ Len(flights[Len(tab10) + 1]) = 3
    /\ gdf.flights_gdf[1].color = gdf.flights_gdf[Len(gdf.flights_gdf)].color
    /\ gdf.flights_gdf[1].color = gdf.flights_gdf[2].color

\* C8: an itinerary of fewer than 2 codes gives no segment, yet its codes are
\* among the airport points; one itinerary of one code alone gives no segment and
\* exactly one point.
C8_ShortItineraryNoSegmentButPoints ==
    pc = "prepared" =>
        /\ Len(gdf.flights_gdf) =
              LegsBefore([i \in 1..Len(flights) |->
                             IF Len(flights[i]) < 2 THEN <<>> ELSE flights[i]],
                         Len(flights) + 1)
        /\ \A k \in 1..Len(gdf.flights_gdf) :
              \E i \in 1..Len(flights) :
                  /\ Len(flights[i]) >= 2
                  /\ Len(gdf.flights_gdf[k].route) = 2 * Len(flights[i]) + 4
        /\ \A i \in 1..Len(flights) :
              Len(flights[i]) = 1 =>
                  \E k \in 1..Len(gdf.airports_gdf) : gdf.airports_gdf[k].code = flights[i][1]
        /\ (Len(flights) = 1 /\ Len(flights[1]) = 1) =>
              /\ gdf.flights_gdf = <<>>
              /\ Len(gdf.airports_gdf) = 1
              /\ gdf.airports_gdf[1].code = flights[1][1]

C8_Witness ==
    /\ pc = "prepared"
    /\ flights = << <<"KRK">> >>
    /\ gdf.flights_gdf = <<>>
    /\ Len(gdf.airports_gdf) = 1

(***************************************************************************)
(* Properties of the renderers.                                            *)
(***************************************************************************)
Xs == {Coord(c)[1] : c \in CodeSet(flights)}
Ys == {Coord(c)[2] : c \in CodeSet(flights)}

\* A limit pair lim (hundredths of a degree) is the span of the values S
\* (tenths of a degree) widened on each side by 10% of the span's length.
PaddedTenth(lim, S) ==
    LET lo == SetMin(S)
        hi == SetMax(S)
    IN /\ 10 * (lo * 10 - lim[1]) = (hi - lo) * 10
       /\ 10 * (lim[2] - hi * 10) = (hi - lo) * 10

\* Every value of S lies strictly inside lim when S spans a positive length;
\* when all values of S coincide the limits coincide with them.
StrictlyInside(lim, S) ==
    IF SetMax(S) > SetMin(S)
    THEN \A v \in S : lim[1] < v * 10 /\ v * 10 < lim[2]
    ELSE \A v \in S : lim[1] = v * 10 /\ lim[2] = v * 10

\* C5: the crop of create_static_map is the bounding box of all geometries
\* widened on each side by 10% of its width (x) and of its height (y); on an
\* axis where the box has positive extent every coordinate lies strictly inside
\* the crop, and on an axis of zero extent the padding is zero.
C5_CropIsBoundsPlusTenPercent ==
    static_png_bytes.kind = "png" =>
        /\ PaddedTenth(static_png_bytes.xlim, Xs)
        /\ PaddedTenth(static_png_bytes.ylim, Ys)
        /\ StrictlyInside(static_png_bytes.xlim, Xs)
        /\ StrictlyInside(static_png_bytes.ylim, Ys)

C5_Witness ==
    /\ static_png_bytes.kind = "png"
    /\ flights = << <<"PRG", "LAS">> >>
    /\ static_png_bytes.xlim = <<-11520 - 1295, 1430 + 1295>>
    /\ static_png_bytes.ylim = <<3610 - 140, 5010 + 140>>

\* C7: create_interactive_map emits one poly-line per segment, in segment order,
\* with the segment's colour and its label as tooltip, then one marker per
\* airport point with its code as tooltip; none is skipped or drawn twice.
C7_OneConstructPerSegmentAndPoint ==
    interactive_html_bytes.kind = "html" =>
        LET ch == interactive_html_bytes.children
            S == Len(gdf.flights_gdf)
            P == Len(gdf.airports_gdf)
        IN /\ Len(ch) = S + P
           /\ \A k \in 1..S :
                 /\ ch[k].type = "PolyLine"
                 /\ ch[k].color = gdf.flights_gdf[k].color
                 /\ ch[k].tooltip = gdf.flights_gdf[k].route
                 /\ ch[k].locations =
                       << <<gdf.flights_gdf[k].geometry[1][2], gdf.flights_gdf[k].geometry[1][1]>>,
                          <<gdf.flights_gdf[k].geometry[2][2], gdf.flights_gdf[k].geometry[2][1]>> >>
           /\ \A k \in 1..P :
                 /\ ch[S + k].type = "CircleMarker"
                 /\ ch[S + k].tooltip = <<gdf.airports_gdf[k].code>>
                 /\ ch[S + k].locations =
                       << <<gdf.airports_gdf[k].geometry[2], gdf.airports_gdf[k].geometry[1]>> >>

C7_Witness ==
    /\ interactive_html_bytes.kind = "html"
    /\ flights = << <<"PRG", "KRK", "LAS">> >>
    /\ Len(interactive_html_bytes.children) = 5
    /\ interactive_html_bytes.children[2].type = "PolyLine"
    /\ interactive_html_bytes.children[3].tooltip = <<"PRG">>

(***************************************************************************)
(* agent.py.  The tool visualize_flights, whole: the tables are built, the *)
(* static map is rendered and assigned, then the interactive map is        *)
(* rendered and assigned; an exception at any step leaves the remaining    *)
(* assignments undone.  png and html are the captured buffers before the   *)
(* call.                                                                   *)
(***************************************************************************)
visualize_flights(fl, world_ok, render_ok, png, html) ==
    LET g == prepare_flight_data(fl)
    IN IF g.kind = "raised"
       THEN [static_png_bytes |-> png, interactive_html_bytes |-> html,
             gdf |-> g, outcome |-> "prepare_raised", error |-> g.error]
       ELSE LET p == create_static_map(g, world_ok)
            IN IF p.kind = "raised"
               THEN [static_png_bytes |-> png, interactive_html_bytes |-> html,
                     gdf |-> g, outcome |-> "static_raised", error |-> p.error]
               ELSE LET h == create_interactive_map(g, render_ok)
                    IN IF h.kind = "raised"
                       THEN [static_png_bytes |-> p, interactive_html_bytes |-> html,
                             gdf |-> g, outcome |-> "interactive_raised", error |-> h.error]
                       ELSE [static_png_bytes |-> p, interactive_html_bytes |-> h,
                             gdf |-> g, outcome |-> "ok", error |-> "none"]

\* The itinerary lists the model hands to the tool.
ToolArguments ==
    { << <<"PRG", "LAS">> >>,
      << <<"PRG", "KRK", "LAS">>, <<"LAS", "PRG">> >>,
      << <<"PRG", "XXX">> >>,
      << <<"KRK">> >> }

\* The answer deltas the model streams, as tokens.
Deltas == { <<"PRG">>, <<" to ", "LAS">> }

InputMessage == [kind |-> "message", role |-> "user", parts |-> <<"query">>]

final_text_last_delta(fa) == IF Len(fa) = 0 THEN <<>> ELSE fa[Len(fa)]

\* "".join(final_answer)
RECURSIVE final_text(_)
final_text(fa) == IF Len(fa) = 0 THEN <<>> ELSE fa[1] \o final_text(Tail(fa))

TextPart(text) == [kind |-> "text", text |-> text]

\* base64.b64encode(static_png_bytes).decode("utf-8")
b64encode(bytes) == [base64 |-> bytes]

PngFilePart(bytes) ==
    [kind |-> "file", name |-> "flights.png", mime_type |-> "image/png",
     file |-> b64encode(bytes)]

\* File.create(filename="flights.html", ...).to_file_part()
HtmlFilePart(content) ==
    [kind |-> "file", name |-> "flights.html", mime_type |-> "text/html",
     file |-> [uploaded |-> content]]

Init ==
    /\ pc = "store_input"
    /\ flights = <<>>
    /\ gdf = None
    /\ static_png_bytes = None
    /\ interactive_html_bytes = None
    /\ final_answer = <<>>
    /\ final_message = <<>>
    /\ yielded = <<>>
    /\ stored = <<>>
    /\ n_calls = 0
    /\ last_call = None

\* await context.store(input)
StoreInput ==
    /\ pc = "store_input"
    /\ stored' = Append(stored, InputMessage)
    /\ pc' = "setup"
    /\ UNCHANGED <<flights, gdf, static_png_bytes, interactive_html_bytes,
                   final_answer, final_message, yielded, n_calls, last_call>>

\* The model, the tools and the MCP client are set up; a failure propagates.
Setup ==
    /\ pc = "setup"
    /\ \E ok \in BOOLEAN : pc' = IF ok THEN "run" ELSE "failed"
    /\ UNCHANGED <<flights, gdf, static_png_bytes, interactive_html_bytes,
                   final_answer, final_message, yielded, stored, n_calls, last_call>>

\* case RequirementAgentFinalAnswerEvent(delta=delta)
FinalAnswerEvent ==
    /\ pc = "run"
    /\ Len(final_answer) < MaxDeltas
    /\ \E delta \in Deltas :
          /\ final_answer' = Append(final_answer, delta)
          /\ yielded' = Append(yielded, TextPart(delta))
    /\ UNCHANGED <<pc, flights, gdf, static_png_bytes, interactive_html_bytes,
                   final_message, stored, n_calls, last_call>>

\* The agent calls the tool; an exception of the tool goes back to the agent
\* loop and the run goes on.
VisualizeFlights ==
    /\ pc = "run"
    /\ n_calls < MaxCalls
    /\ \E fl \in ToolArguments : \E world_ok \in BOOLEAN : \E render_ok \in BOOLEAN :
          LET r == visualize_flights(fl, world_ok, render_ok,
                                     static_png_bytes, interactive_html_bytes)
          IN /\ flights' = fl
             /\ gdf' = r.gdf
             /\ static_png_bytes' = r.static_png_bytes
             /\ interactive_html_bytes' = r.interactive_html_bytes
             /\ last_call' = [outcome |-> r.outcome, error |-> r.error]
    /\ n_calls' = n_calls + 1
    /\ UNCHANGED <<pc, final_answer, final_message, yielded, stored>>

\* The event stream ends: final_message = AgentMessage(parts=[TextPart(...)])
RunEnds ==
    /\ pc = "run"
    /\ final_message' = <<TextPart(final_text(final_answer))>>
    /\ pc' = "png"
    /\ UNCHANGED <<flights, gdf, static_png_bytes, interactive_html_bytes,
                   final_answer, yielded, stored, n_calls, last_call>>

\* The event stream raises (model, search tool or form): nothing is caught.
RunRaises ==
    /\ pc = "run"
    /\ pc' = "failed"
    /\ UNCHANGED <<flights, gdf, static_png_bytes, interactive_html_bytes,
                   final_answer, final_message, yielded, stored, n_calls, last_call>>

\* if static_png_bytes is not None: ...
EmitPng ==
    /\ pc = "png"
    /\ IF static_png_bytes # None
       THEN /\ final_message' = Append(final_message, PngFilePart(static_png_bytes))
            /\ yielded' = Append(yielded, PngFilePart(static_png_bytes))
       ELSE UNCHANGED <<final_message, yielded>>
    /\ pc' = "html"
    /\ UNCHANGED <<flights, gdf, static_png_bytes, interactive_html_bytes,
                   final_answer, stored, n_calls, last_call>>

\* if interactive_html_bytes is not None: ...  (the upload may fail)
EmitHtml ==
    /\ pc = "html"
    /\ IF interactive_html_bytes # None
       THEN \E upload_ok \in BOOLEAN :
               IF upload_ok
               THEN /\ final_message' = Append(final_message, HtmlFilePart(interactive_html_bytes))
                    /\ yielded' = Append(yielded, HtmlFilePart(interactive_html_bytes))
                    /\ pc' = "store"
               ELSE /\ pc' = "failed"
                    /\ UNCHANGED <<final_message, yielded>>
       ELSE /\ pc' = "store"
            /\ UNCHANGED <<final_message, yielded>>
    /\ UNCHANGED <<flights, gdf, static_png_bytes, interactive_html_bytes,
                   final_answer, stored, n_calls, last_call>>

\* await context.store(final_message)
StoreFinal ==
    /\ pc = "store"
    /\ stored' = Append(stored, [kind |-> "message", role |-> "agent", parts |-> final_message])
    /\ pc' = "done"
    /\ UNCHANGED <<flights, gdf, static_png_bytes, interactive_html_bytes,
                   final_answer, final_message, yielded, n_calls, last_call>>

Next ==
    \/ StoreInput
    \/ Setup
    \/ FinalAnswerEvent
    \/ VisualizeFlights
    \/ RunEnds
    \/ RunRaises
    \/ EmitPng
    \/ EmitHtml
    \/ StoreFinal

Spec == Init /\ [][Next]_vars

(***************************************************************************)
(* Properties of the run of flight_search_agent.                           *)
(***************************************************************************)
\* C6 (the claim as stated; the code violates it): after a visualize_flights
\* call whose static rendering failed for want of the basemap, the interactive
\* buffer holds the interactive map of that call's tables.
C6_BasemapFailureDoesNotBlockInteractive ==
    (last_call # None /\ last_call.outcome = "static_raised" /\ last_call.error = "basemap") =>
        /\ interactive_html_bytes # None
        /\ interactive_html_bytes.children = map_children(gdf)

\* The PNG and the HTML buffer show the same segments and the same airports.
SameDepiction(png, html) ==
    LET S == Len(png.lines)
        P == Len(png.annotations)
    IN /\ Len(html.children) = S + P
       /\ \A k \in 1..S :
             /\ html.children[k].color = png.lines[k].color
             /\ html.children[k].locations =
                   [n \in 1..2 |-> <<png.lines[k].geometry[n][2], png.lines[k].geometry[n][1]>>]
       /\ \A k \in 1..P : html.children[S + k].tooltip = <<png.annotations[k].text>>

\* C9 (the claim as stated; the code violates it): the HTML buffer is set only
\* if the PNG buffer is, and when both are set they depict the same flights.
C9_CapturedPairConsistent ==
    /\ interactive_html_bytes # None => static_png_bytes # None
    /\ (interactive_html_bytes # None /\ static_png_bytes # None) =>
          SameDepiction(static_png_bytes, interactive_html_bytes)

Texts(seq) == SelectSeq(seq, LAMBDA part : part.kind = "text")
Files(seq) == SelectSeq(seq, LAMBDA part : part.kind = "file")

RECURSIVE Concat(_, _)
Concat(seq, k) == IF k > Len(seq) THEN <<>> ELSE seq[k].text \o Concat(seq, k + 1)

\* C10: the input message is stored before anything is yielded; every text delta
\* is yielded before any file part; the PNG part (yielded iff the PNG buffer is
\* set) comes before the HTML part (yielded iff the HTML buffer is set); the
\* final message is stored once, last, and holds the concatenation of the
\* yielded deltas followed by exactly the yielded file parts in their order.
C10_OutputOrder ==
    /\ (Len(yielded) > 0 \/ pc # "store_input") =>
          (Len(stored) >= 1 /\ stored[1] = InputMessage)
    /\ \A a, b \in 1..Len(yielded) :
          a < b =>
              /\ yielded[a].kind = "file" => yielded[b].kind = "file"
              /\ (yielded[a].kind = "file" /\ yielded[b].kind = "file") =>
                    (yielded[a].name = "flights.png" /\ yielded[b].name = "flights.html")
    /\ Len(stored) <= 2
    /\ Len(stored) = 2 <=> pc = "done"
    /\ pc = "done" =>
          LET final == stored[2]
          IN /\ final.role = "agent"
             /\ final.parts[1] = [kind |-> "text", text |-> Concat(Texts(yielded), 1)]
             /\ Tail(final.parts) = Files(yielded)
             /\ (static_png_bytes # None) <=>
                   (\E k \in 1..Len(yielded) :
                       yielded[k] = [kind |-> "file", name |-> "flights.png",
                                     mime_type |-> "image/png",
                                     file |-> [base64 |-> static_png_bytes]])
             /\ (interactive_html_bytes # None) <=>
                   (\E k \in 1..Len(yielded) :
                       yielded[k] = [kind |-> "file", name |-> "flights.html",
                                     mime_type |-> "text/html",
                                     file |-> [uploaded |-> interactive_html_bytes]])

C10_Witness ==
    /\ pc = "done"
    /\ Len(yielded) = 4
    /\ yielded[1].kind = "text"
    /\ yielded[2].kind = "text"
    /\ yielded[1] # yielded[2]
    /\ yielded[3].name = "flights.png"
    /\ yielded[4].name = "flights.html"
    /\ Len(stored[2].parts) = 3

====
